---- MODULE Spec2Model ----
(***************************************************************************)
(* Model of convert.py, the RISC-V UDB to LLVM TableGen converter.         *)
(*                                                                         *)
(* Python strings that the code inspects character by character (the       *)
(* inheritance reference, the match pattern, the assembly string, operand  *)
(* descriptors, opcode literals) are sequences of one-character strings.   *)
(* Text the code only interpolates or tests for emptiness (variable names, *)
(* locations, file names) is an opaque value.                              *)
(*                                                                         *)
(* A function that raises returns the name of the exception instead of a   *)
(* value ("IndexError", "TypeError").  A rendered block is the record of   *)
(* its parts (operands, assembly format, family, constraint lines); the    *)
(* identifier and description clean-up of lines 167-171 is not modelled.   *)
(* stdout also records the traceback of an uncaught exception.             *)
(***************************************************************************)
EXTENDS Integers, Sequences, FiniteSets, TLC

VARIABLES
    udb_data,      \* the decoded record handed to the function under test
    inst_for,      \* get_instruction_format's result / parse's family argument
    assembly_str,  \* parse_assembly_operands' first argument
    operands,      \* parse_assembly_operands' result [output, inp]
    block,         \* convert_instruction's result
    input_path,    \* main: what sys.argv[1] names (a file, a directory, nothing)
    pc,            \* main: position in the run
    todo,          \* main: sorted yaml files not yet processed
    all_content,   \* main: the accumulated content list
    out_file,      \* main: the output artifact on disk
    stdout,        \* main: the messages printed so far
    exit_code      \* main: the process's exit status

vars == <<udb_data, inst_for, assembly_str, operands, block,
          input_path, pc, todo, all_content, out_file, stdout, exit_code>>

unitVars == <<udb_data, inst_for, assembly_str, operands, block>>
mainVars == <<input_path, pc, todo, all_content, out_file, stdout, exit_code>>

(***************************************************************************)
(* Bounds of the model.                                                    *)
(***************************************************************************)
MaxRefParts == 2      \* segments an inheritance reference is built from
MaxMatchLen == 18     \* characters of a match pattern
MaxSeps == 2          \* '-' characters in a match pattern
MaxTokens == 2        \* comma-separated tokens of an assembly string
MaxVars == 2          \* entries of an encoding's variables list
MaxFiles == 3         \* yaml files of the input directory

(***************************************************************************)
(* Python string primitives.                                               *)
(***************************************************************************)
\* sub in s
Contains(s, sub) ==
    \E i \in 0..(Len(s) - Len(sub)) : SubSeq(s, i + 1, i + Len(sub)) = sub

\* s.startswith(p)
StartsWith(s, p) ==
    Len(s) >= Len(p) /\ SubSeq(s, 1, Len(p)) = p

\* s.replace(c, '') for a one-character c
RemoveChar(s, c) == SelectSeq(s, LAMBDA x : x # c)

\* s.strip()
RECURSIVE LStrip(_)
LStrip(s) == IF s # <<>> /\ Head(s) = " " THEN LStrip(Tail(s)) ELSE s

RECURSIVE RStrip(_)
RStrip(s) ==
    IF s # <<>> /\ s[Len(s)] = " " THEN RStrip(SubSeq(s, 1, Len(s) - 1)) ELSE s

Strip(s) == RStrip(LStrip(s))

\* s.split(c) for a one-character c: always at least one part
RECURSIVE SplitFrom(_, _, _)
SplitFrom(s, c, cur) ==
    IF s = <<>> THEN <<cur>>
    ELSE IF Head(s) = c THEN <<cur>> \o SplitFrom(Tail(s), c, <<>>)
    ELSE SplitFrom(Tail(s), c, Append(cur, Head(s)))

Split(s, c) == SplitFrom(s, c, <<>>)

\* s.lower()
LowerChar(c) ==
    CASE c = "I" -> "i"
      [] c = "M" -> "m"
      [] c = "X" -> "x"
      [] c = "R" -> "r"
      [] c = "S" -> "s"
      [] c = "B" -> "b"
      [] c = "U" -> "u"
      [] c = "J" -> "j"
      [] OTHER -> c

Lower(s) == [i \in 1..Len(s) |-> LowerChar(s[i])]

Digits == {"0", "1", "2", "3", "4", "5", "6", "7", "8", "9"}

\* s.isdigit()
IsDigit(s) == s # <<>> /\ \A i \in 1..Len(s) : s[i] \in Digits

\* sep.join(parts)
RECURSIVE Join(_, _)
Join(parts, sep) ==
    IF parts = <<>> THEN <<>>
    ELSE IF Len(parts) = 1 THEN parts[1]
    ELSE parts[1] \o sep \o Join(Tail(parts), sep)

\* concatenation of a sequence of strings
RECURSIVE Flatten(_)
Flatten(parts) == IF parts = <<>> THEN <<>> ELSE Head(parts) \o Flatten(Tail(parts))

\* all sequences over S of length at most n
SeqUpTo(S, n) == UNION {[1..k -> S] : k \in 0..n}

(***************************************************************************)
(* Optional values of the decoded YAML mapping: a key is absent or carries *)
(* a value.                                                                *)
(***************************************************************************)
Absent == [tag |-> "absent", v |-> <<>>]
Str(s) == [tag |-> "str", v |-> s]

Families == {"R", "I", "S", "B", "U", "J", "C", "V"}
Exceptions == {"IndexError", "TypeError"}

(***************************************************************************)
(* get_instruction_format                                                  *)
(*                                                                         *)
(* udb_data.format is [tag |-> "absent"] (key missing), "null" (the key    *)
(* holds None, which `in` cannot search) or "map".  $inherits is absent, a *)
(* single reference [tag "str", v <<ref>>] or a list [tag "list", v refs]. *)
(* An opcodes entry is absent, a mapping ("dict", whose 'value' key may be *)
(* absent), a string ("str") or anything else ("other"); a value that is   *)
(* not a string is Other.                                                  *)
(***************************************************************************)
OpcodeFields == <<"funct7", "funct3", "funct6", "funct2", "opcode">>
FieldNames == {OpcodeFields[i] : i \in 1..Len(OpcodeFields)}

Other == [tag |-> "other", v |-> <<>>]
NoVariables == [tag |-> "absent", v |-> <<>>]
NoEncoding == [tag |-> "absent", match |-> Absent, variables |-> NoVariables]
NoOpcodes == [tag |-> "absent", fields |-> [f \in FieldNames |-> [form |-> "absent", value |-> Absent]]]

FormatMap(inh, opc, enc) == [tag |-> "map", inherits |-> inh, opcodes |-> opc, encoding |-> enc]
FormatAbsent == [FormatMap(Absent, NoOpcodes, NoEncoding) EXCEPT !.tag = "absent"]
FormatNull == [FormatMap(Absent, NoOpcodes, NoEncoding) EXCEPT !.tag = "null"]

\* udb_data.get('format', {})
format_data_of(data) ==
    IF data.format.tag = "absent"
    THEN FormatMap(Absent, NoOpcodes, NoEncoding)
    ELSE data.format

\* marker_family with the tests for I made before those for R
marker_family_I_first(inherit_path) ==
    IF Contains(inherit_path, <<"/", "I", "/">>) \/ Contains(inherit_path, <<"I", "-">>)
    THEN "I"
    ELSE IF Contains(inherit_path, <<"/", "R", "/">>) \/ Contains(inherit_path, <<"R", "-">>)
    THEN "R"
    ELSE IF Contains(inherit_path, <<"/", "S", "/">>) \/ Contains(inherit_path, <<"S", "-">>)
    THEN "S"
    ELSE IF Contains(inherit_path, <<"/", "B", "/">>) \/ Contains(inherit_path, <<"B", "-">>)
    THEN "B"
    ELSE IF Contains(inherit_path, <<"/", "U", "/">>) \/ Contains(inherit_path, <<"U", "-">>)
    THEN "U"
    ELSE IF Contains(inherit_path, <<"/", "J", "/">>) \/ Contains(inherit_path, <<"J", "-">>)
    THEN "J"
    ELSE ""

\* the chain of marker tests on inherit_path; "" when none succeeds
marker_family(inherit_path) ==
    IF Contains(inherit_path, <<"/", "R", "/">>) \/ Contains(inherit_path, <<"R", "-">>)
    THEN "R"
    ELSE IF Contains(inherit_path, <<"/", "I", "/">>) \/ Contains(inherit_path, <<"I", "-">>)
    THEN "I"
    ELSE IF Contains(inherit_path, <<"/", "S", "/">>) \/ Contains(inherit_path, <<"S", "-">>)
    THEN "S"
    ELSE IF Contains(inherit_path, <<"/", "B", "/">>) \/ Contains(inherit_path, <<"B", "-">>)
    THEN "B"
    ELSE IF Contains(inherit_path, <<"/", "U", "/">>) \/ Contains(inherit_path, <<"U", "-">>)
    THEN "U"
    ELSE IF Contains(inherit_path, <<"/", "J", "/">>) \/ Contains(inherit_path, <<"J", "-">>)
    THEN "J"
    ELSE ""

CompressedLen == 16

\* fallback_family measuring the match pattern without removing its '-'
fallback_family_unstripped(data) ==
    IF /\ data.encoding.tag = "map"
       /\ data.encoding.match.tag = "str"
       /\ Len(data.encoding.match.v) = CompressedLen
    THEN "C"
    ELSE LET assembly == data.assembly.v
         IN  IF /\ Contains(assembly, <<"v", "m">>)
                /\ \/ Contains(assembly, <<"v", "s", "1">>)
                   \/ Contains(assembly, <<"v", "s", "2">>)
             THEN "V"
             ELSE "R"

\* the rules after the $inherits block: match length, assembly content, default
fallback_family(data) ==
    IF /\ data.encoding.tag = "map"
       /\ data.encoding.match.tag = "str"
       /\ Len(RemoveChar(data.encoding.match.v, "-")) = CompressedLen
    THEN "C"
    ELSE LET assembly == data.assembly.v
         IN  IF /\ Contains(assembly, <<"v", "m">>)
                /\ \/ Contains(assembly, <<"v", "s", "1">>)
                   \/ Contains(assembly, <<"v", "s", "2">>)
             THEN "V"
             ELSE "R"

\* get_instruction_format with the $inherits block ending in a default of R
get_instruction_format_else(data) ==
    LET format_data == format_data_of(data)
    IN  IF format_data.tag = "null" THEN "TypeError"
        ELSE IF format_data.inherits.tag # "absent"
        THEN IF format_data.inherits.tag = "list" /\ format_data.inherits.v = <<>>
             THEN "IndexError"
             ELSE LET inherit_path == IF format_data.inherits.tag = "list"
                                      THEN format_data.inherits.v[1]
                                      ELSE Head(format_data.inherits.v)
                  IN  IF marker_family(inherit_path) # ""
                      THEN marker_family(inherit_path)
                      ELSE "R"
        ELSE fallback_family(data)

get_instruction_format(data) ==
    LET format_data == format_data_of(data)
    IN  IF format_data.tag = "null" THEN "TypeError"
        ELSE IF format_data.inherits.tag # "absent"
        THEN IF format_data.inherits.tag = "list" /\ format_data.inherits.v = <<>>
             THEN "IndexError"
             ELSE LET inherit_path == IF format_data.inherits.tag = "list"
                                      THEN format_data.inherits.v[1]
                                      ELSE Head(format_data.inherits.v)
                  IN  IF marker_family(inherit_path) # ""
                      THEN marker_family(inherit_path)
                      ELSE fallback_family(data)
        ELSE fallback_family(data)

(***************************************************************************)
(* parse_assembly_operands                                                 *)
(*                                                                         *)
(* An operand descriptor is the text '<type>:$<name>'.                     *)
(***************************************************************************)
t_GPR == <<"G", "P", "R">>
t_VR == <<"V", "R">>
t_VMaskOp == <<"V", "M", "a", "s", "k", "O", "p">>
t_simm12 == <<"s", "i", "m", "m", "1", "2">>
t_simm13_lsb0 == <<"s", "i", "m", "m", "1", "3", "_", "l", "s", "b", "0">>
t_simm21_lsb0 == <<"s", "i", "m", "m", "2", "1", "_", "l", "s", "b", "0">>
t_uimm20 == <<"u", "i", "m", "m", "2", "0">>

n_rd == <<"r", "d">>
n_rs1 == <<"r", "s", "1">>
n_rs2 == <<"r", "s", "2">>
n_xd == <<"x", "d">>
n_xs1 == <<"x", "s", "1">>
n_xs2 == <<"x", "s", "2">>
n_vd == <<"v", "d">>
n_vs == <<"v", "s">>
n_vm == <<"v", "m">>
n_imm == <<"i", "m", "m">>

\* f'{type}:${name}'
Operand(type, name) == type \o <<":", "$">> \o name

\* imm_operand without the branches for B and U
imm_operand_no_BU(family) ==
    IF family = "I" THEN Operand(t_simm12, n_imm)
    ELSE IF family = "S" THEN Operand(t_simm12, n_imm)
    ELSE IF family = "J" THEN Operand(t_simm21_lsb0, n_imm)
    ELSE Operand(t_simm12, n_imm)

\* the immediate operand a family's immediate token is typed as
imm_operand(family) ==
    IF family = "I" THEN Operand(t_simm12, n_imm)
    ELSE IF family = "S" THEN Operand(t_simm12, n_imm)
    ELSE IF family = "B" THEN Operand(t_simm13_lsb0, n_imm)
    ELSE IF family = "U" THEN Operand(t_uimm20, n_imm)
    ELSE IF family = "J" THEN Operand(t_simm21_lsb0, n_imm)
    ELSE Operand(t_simm12, n_imm)

\* one iteration of the loop over parts: the lists after the token `part`
parse_part(part, family, acc) ==
    IF StartsWith(part, <<"v">>) /\ family = "V"
    THEN IF part = n_vd
         THEN [acc EXCEPT !.output = Append(@, Operand(t_VR, n_vd))]
         ELSE IF StartsWith(part, n_vs)
         THEN [acc EXCEPT !.inp = Append(@, Operand(t_VR, part))]
         ELSE IF part = n_vm
         THEN [acc EXCEPT !.inp = Append(@, Operand(t_VMaskOp, n_vm))]
         ELSE acc
    ELSE IF StartsWith(part, <<"x">>) \/ part \in {n_rd, n_rs1, n_rs2, n_xs1, n_xd}
    THEN IF part \in {n_xd, n_rd}
         THEN [acc EXCEPT !.output = Append(@, Operand(t_GPR, n_rd))]
         ELSE IF part \in {n_xs1, n_rs1}
         THEN [acc EXCEPT !.inp = Append(@, Operand(t_GPR, n_rs1))]
         ELSE IF part \in {n_xs2, n_rs2}
         THEN [acc EXCEPT !.inp = Append(@, Operand(t_GPR, n_rs2))]
         ELSE [acc EXCEPT !.inp = Append(@, Operand(t_GPR, part))]
    ELSE IF Contains(Lower(part), n_imm) \/ IsDigit(part)
    THEN [acc EXCEPT !.inp = Append(@, imm_operand(family))]
    ELSE acc

RECURSIVE parse_parts(_, _, _)
parse_parts(parts, family, acc) ==
    IF parts = <<>> THEN acc
    ELSE parse_parts(Tail(parts), family, parse_part(Head(parts), family, acc))

NoOperands == [output |-> <<>>, inp |-> <<>>]

parse_assembly_operands(asm, family) ==
    IF asm = <<>> THEN NoOperands
    ELSE LET raw == Split(asm, ",")
             parts == [i \in 1..Len(raw) |-> Strip(raw[i])]
         IN  parse_parts(parts, family, NoOperands)

(***************************************************************************)
(* extract_encoding_info                                                   *)
(*                                                                         *)
(* An extracted encoding maps each field name, 'match' and 'variables' to  *)
(* an optional value.                                                      *)
(***************************************************************************)

\* the value the loop over the field names stores for one field
opcode_value(entry) ==
    IF entry.form = "dict" /\ entry.value.tag # "absent" THEN entry.value
    ELSE IF entry.form = "str" THEN entry.value
    ELSE Absent

extract_encoding_info(opcodes, enc_data) ==
    [fields |-> [f \in FieldNames |->
                    IF opcodes.tag = "map" THEN opcode_value(opcodes.fields[f]) ELSE Absent],
     match |-> IF enc_data.tag = "map" THEN enc_data.match ELSE Absent,
     variables |-> IF enc_data.tag = "map" THEN enc_data.variables ELSE NoVariables]

\* dict.update: the keys of `other` overwrite those of `encoding`
update(encoding, other) ==
    [fields |-> [f \in FieldNames |->
                    IF other.fields[f].tag # "absent" THEN other.fields[f]
                    ELSE encoding.fields[f]],
     match |-> IF other.match.tag # "absent" THEN other.match ELSE encoding.match,
     variables |-> IF other.variables.tag # "absent" THEN other.variables
                   ELSE encoding.variables]

\* the encoding convert_instruction works with
merged_encoding(data) ==
    LET format_data == format_data_of(data)
        encoding == extract_encoding_info(format_data.opcodes, format_data.encoding)
    IN  IF data.encoding.tag # "absent"
        THEN update(encoding, extract_encoding_info(NoOpcodes, data.encoding))
        ELSE encoding

(***************************************************************************)
(* convert_instruction                                                     *)
(***************************************************************************)
\* default_operands with U and J left out of the families given an output
default_operands_no_UJ(parsed, family) ==
    IF parsed.output = <<>> /\ parsed.inp = <<>>
    THEN LET output1 == IF family \in {"R", "I"}
                        THEN <<Operand(t_GPR, n_rd)>> ELSE parsed.output
         IN  IF family = "R"
             THEN [output |-> output1,
                   inp |-> <<Operand(t_GPR, n_rs1), Operand(t_GPR, n_rs2)>>]
             ELSE IF family = "I"
             THEN [output |-> output1,
                   inp |-> <<Operand(t_GPR, n_rs1), Operand(t_simm12, n_imm)>>]
             ELSE IF family \in {"S", "B"}
             THEN [output |-> <<>>,
                   inp |-> <<Operand(t_GPR, n_rs1), Operand(t_GPR, n_rs2),
                             Operand(t_simm12, n_imm)>>]
             ELSE [output |-> output1, inp |-> parsed.inp]
    ELSE parsed

\* the operand lists after the substitution of the family's default shape
default_operands(parsed, family) ==
    IF parsed.output = <<>> /\ parsed.inp = <<>>
    THEN LET output1 == IF family \in {"R", "I", "U", "J"}
                        THEN <<Operand(t_GPR, n_rd)>> ELSE parsed.output
         IN  IF family = "R"
             THEN [output |-> output1,
                   inp |-> <<Operand(t_GPR, n_rs1), Operand(t_GPR, n_rs2)>>]
             ELSE IF family = "I"
             THEN [output |-> output1,
                   inp |-> <<Operand(t_GPR, n_rs1), Operand(t_simm12, n_imm)>>]
             ELSE IF family \in {"S", "B"}
             THEN [output |-> <<>>,
                   inp |-> <<Operand(t_GPR, n_rs1), Operand(t_GPR, n_rs2),
                             Operand(t_simm12, n_imm)>>]
             ELSE [output |-> output1, inp |-> parsed.inp]
    ELSE parsed

\* s.split(sep) for a non-empty string sep
RECURSIVE SplitStrFrom(_, _, _)
SplitStrFrom(s, sep, cur) ==
    IF s = <<>> THEN <<cur>>
    ELSE IF StartsWith(s, sep)
    THEN <<cur>> \o SplitStrFrom(SubSeq(s, Len(sep) + 1, Len(s)), sep, <<>>)
    ELSE SplitStrFrom(Tail(s), sep, Append(cur, Head(s)))

SplitStr(s, sep) == SplitStrFrom(s, sep, <<>>)

\* f"${op.split(':$')[1]}"
asm_part(op) == <<"$">> \o SplitStr(op, <<":", "$">>)[2]

asm_format_of(output, inp) ==
    LET asm_parts == [i \in 1..Len(output) |-> asm_part(output[i])]
                     \o [i \in 1..Len(inp) |-> asm_part(inp[i])]
    IN  Join(asm_parts, <<",", " ">>)

ConstraintFields == <<"opcode", "funct3", "funct7", "funct6", "funct2">>

\* field.capitalize()
capitalize(field) ==
    CASE field = "opcode" -> "Opcode"
      [] field = "funct3" -> "Funct3"
      [] field = "funct7" -> "Funct7"
      [] field = "funct6" -> "Funct6"
      [] field = "funct2" -> "Funct2"

PatternLine(match) ==
    [kind |-> "EncodingPattern", field |-> "", text |-> match, name |-> "", location |-> ""]
FieldLine(field, value) ==
    [kind |-> "let", field |-> capitalize(field), text |-> value, name |-> "", location |-> ""]
VariableLine(var) ==
    [kind |-> "Variable", field |-> "", text |-> <<>>, name |-> var.name,
     location |-> var.location]

RECURSIVE field_constraints(_, _)
field_constraints(encoding, fields) ==
    IF fields = <<>> THEN <<>>
    ELSE LET value == encoding.fields[Head(fields)]
             here == IF value.tag = "str" /\ StartsWith(value.v, <<"0", "b">>)
                     THEN <<FieldLine(Head(fields), value.v)>> ELSE <<>>
         IN  here \o field_constraints(encoding, Tail(fields))

\* variable_lines testing the name only
variable_lines_name_only(var) ==
    IF var.name # "" THEN <<VariableLine(var)>> ELSE <<>>

\* the comment line of one entry of the variables list, if it gets one
variable_lines(var) ==
    IF var.name # "" /\ var.location # "" THEN <<VariableLine(var)>> ELSE <<>>

RECURSIVE variable_constraints(_)
variable_constraints(variables) ==
    IF variables = <<>> THEN <<>>
    ELSE variable_lines(Head(variables)) \o variable_constraints(Tail(variables))

constraints_of(encoding) ==
    (IF encoding.match.tag # "absent" THEN <<PatternLine(encoding.match.v)>> ELSE <<>>)
    \o field_constraints(encoding, ConstraintFields)
    \o (IF encoding.variables.tag # "absent"
        THEN variable_constraints(encoding.variables.v) ELSE <<>>)

NoBlock ==
    [tag |-> "none", exc |-> "", file |-> 0, name |-> "", format |-> "",
     parsed |-> NoOperands,
     output |-> <<>>, inp |-> <<>>, asm_format |-> <<>>, constraints |-> <<>>]

Raise(e) == [NoBlock EXCEPT !.tag = "raise", !.exc = e]

convert_instruction(data) ==
    LET family == get_instruction_format(data)
    IN  IF family \in Exceptions THEN Raise(family)
        ELSE LET encoding == merged_encoding(data)
                 parsed == parse_assembly_operands(data.assembly.v, family)
                 final == default_operands(parsed, family)
             IN  [tag |-> "instruction", exc |-> "", file |-> 0, name |-> data.name,
                  format |-> family, parsed |-> parsed,
                  output |-> final.output, inp |-> final.inp,
                  asm_format |-> asm_format_of(final.output, final.inp),
                  constraints |-> constraints_of(encoding)]

(***************************************************************************)
(* convert_csr, convert_extension, process_udb_file                        *)
(*                                                                         *)
(* A document is what yaml.safe_load makes of a file: it raises YAMLError  *)
(* ("yamlerror"), yields nothing or an empty mapping ("empty"), a value    *)
(* that is not a mapping ("notmap"), or a mapping ("map") with its data.   *)
(***************************************************************************)
convert_csr(data) == [NoBlock EXCEPT !.tag = "csr", !.name = data.name]

convert_extension(data) == [NoBlock EXCEPT !.tag = "extension", !.name = data.name]

Msg(text, file, n) == [msg |-> text, file |-> file, count |-> n]

\* the returned content (NoBlock for None, a Raise for an exception) and the
\* messages printed on the way
process_udb_file(file, doc) ==
    IF doc.load = "yamlerror"
    THEN [content |-> NoBlock, printed |-> <<Msg("Error parsing", file, 0)>>]
    ELSE IF doc.load \in {"empty", "notmap"}
    THEN [content |-> NoBlock, printed |-> <<Msg("Skipping: invalid format", file, 0)>>]
    ELSE IF doc.data.kind = "instruction"
    THEN [content |-> convert_instruction(doc.data), printed |-> <<>>]
    ELSE IF doc.data.kind = "csr"
    THEN [content |-> convert_csr(doc.data), printed |-> <<>>]
    ELSE IF doc.data.kind = "extension"
    THEN [content |-> convert_extension(doc.data), printed |-> <<>>]
    ELSE [content |-> NoBlock, printed |-> <<Msg("Skipping: unknown kind", file, 0)>>]

\* the test `if content:` left out
truthy_always(content) == TRUE

\* `if content:` a rendered block is a non-empty string, None is falsy
truthy(content) == content.tag \in {"instruction", "csr", "extension"}

(***************************************************************************)
(* main                                                                    *)
(***************************************************************************)
generate_tablegen_header == [NoBlock EXCEPT !.tag = "header"]
Marker(file) == [NoBlock EXCEPT !.tag = "marker", !.file = file]
Newline == [NoBlock EXCEPT !.tag = "newline"]

\* sorted(names): the ascending sequence of a set of file names
Least(S) == CHOOSE x \in S : \A y \in S : x <= y

\* sorted with the comparison reversed
RECURSIVE sorted_descending(_)
sorted_descending(S) ==
    IF S = {} THEN <<>>
    ELSE LET x == CHOOSE x \in S : \A y \in S : x >= y
         IN  <<x>> \o sorted_descending(S \ {x})

RECURSIVE sorted(_)
sorted(S) == IF S = {} THEN <<>> ELSE <<Least(S)>> \o sorted(S \ {Least(S)})

\* content, '\n' for every entry of all_content
RECURSIVE written_lines(_)
written_lines(content) ==
    IF content = <<>> THEN <<>>
    ELSE <<Head(content), Newline>> \o written_lines(Tail(content))

Unwritten == [writes |-> 0, text |-> <<>>]

\* sys.argv too short: usage text, exit status 1
MainUsage ==
    /\ pc = "start"
    /\ input_path.kind = "noargs"
    /\ stdout' = Append(stdout, Msg("Usage", 0, 0))
    /\ exit_code' = 1
    /\ pc' = "exit"
    /\ UNCHANGED <<input_path, todo, all_content, out_file, unitVars>>

\* input_path.is_file(): the single-document mode
MainFile ==
    /\ pc = "start"
    /\ input_path.kind = "file"
    /\ LET r == process_udb_file(1, input_path.files[1])
       IN  IF r.content.tag = "raise"
           THEN /\ stdout' = stdout \o r.printed \o <<Msg("Traceback", 1, 0)>>
                /\ exit_code' = 1
                /\ pc' = "crashed"
                /\ out_file' = out_file
           ELSE /\ exit_code' = 0
                /\ pc' = "done"
                /\ IF truthy(r.content)
                   THEN /\ out_file' = [writes |-> out_file.writes + 1,
                                        text |-> <<generate_tablegen_header, r.content>>]
                        /\ stdout' = stdout \o r.printed \o <<Msg("Generated", 0, 1)>>
                   ELSE /\ out_file' = out_file
                        /\ stdout' = stdout \o r.printed
                                        \o <<Msg("No content generated", 0, 0)>>
    /\ UNCHANGED <<input_path, todo, all_content, unitVars>>

\* input_path.is_dir(): make the output directory, list and sort the yaml files
MainDir ==
    /\ pc = "start"
    /\ input_path.kind = "dir"
    /\ all_content' = <<>>
    /\ todo' = sorted(DOMAIN input_path.files)
    /\ pc' = "loop"
    /\ UNCHANGED <<input_path, out_file, stdout, exit_code, unitVars>>

\* MainStep rewriting the artifact whenever a document has rendered
MainStep_writing ==
    /\ pc = "loop"
    /\ todo # <<>>
    /\ LET yaml_file == Head(todo)
           r == process_udb_file(yaml_file, input_path.files[yaml_file])
           progress == <<Msg("Processing", yaml_file, 0)>>
       IN  IF r.content.tag = "raise"
           THEN /\ stdout' = stdout \o progress \o r.printed
                                \o <<Msg("Traceback", yaml_file, 0)>>
                /\ exit_code' = 1
                /\ pc' = "crashed"
                /\ UNCHANGED <<todo, all_content, out_file>>
           ELSE /\ stdout' = stdout \o progress \o r.printed
                /\ todo' = Tail(todo)
                /\ all_content' = IF truthy(r.content)
                                  THEN all_content \o <<Marker(yaml_file), r.content>>
                                  ELSE all_content
                /\ out_file' = IF truthy(r.content)
                               THEN [writes |-> out_file.writes + 1,
                                     text |-> <<generate_tablegen_header>>
                                              \o written_lines(all_content')]
                               ELSE out_file
                /\ UNCHANGED <<pc, exit_code>>
    /\ UNCHANGED <<input_path, unitVars>>

\* one iteration of the loop over the sorted yaml files
MainStep ==
    /\ pc = "loop"
    /\ todo # <<>>
    /\ LET yaml_file == Head(todo)
           r == process_udb_file(yaml_file, input_path.files[yaml_file])
           progress == <<Msg("Processing", yaml_file, 0)>>
       IN  IF r.content.tag = "raise"
           THEN /\ stdout' = stdout \o progress \o r.printed
                                \o <<Msg("Traceback", yaml_file, 0)>>
                /\ exit_code' = 1
                /\ pc' = "crashed"
                /\ UNCHANGED <<todo, all_content>>
           ELSE /\ stdout' = stdout \o progress \o r.printed
                /\ todo' = Tail(todo)
                /\ all_content' = IF truthy(r.content)
                                  THEN all_content \o <<Marker(yaml_file), r.content>>
                                  ELSE all_content
                /\ UNCHANGED <<pc, exit_code>>
    /\ UNCHANGED <<input_path, out_file, unitVars>>

\* after the loop: write the aggregated artifact, or report that there is none
MainFinish ==
    /\ pc = "loop"
    /\ todo = <<>>
    /\ IF all_content # <<>>
       THEN /\ out_file' = [writes |-> out_file.writes + 1,
                            text |-> <<generate_tablegen_header>>
                                     \o written_lines(all_content)]
            /\ stdout' = Append(stdout, Msg("Generated with items", 0, Len(all_content) \div 2))
       ELSE /\ out_file' = out_file
            /\ stdout' = Append(stdout, Msg("No content found", 0, 0))
    /\ exit_code' = 0
    /\ pc' = "done"
    /\ UNCHANGED <<input_path, todo, all_content, unitVars>>

\* input_path is neither a file nor a directory
MainNotFound ==
    /\ pc = "start"
    /\ input_path.kind = "missing"
    /\ stdout' = Append(stdout, Msg("Error: not found", 0, 0))
    /\ exit_code' = 1
    /\ pc' = "exit"
    /\ UNCHANGED <<input_path, todo, all_content, out_file, unitVars>>

(***************************************************************************)
(* The inputs the functions are applied to.                                *)
(***************************************************************************)
Single(ref) == [tag |-> "str", v |-> <<ref>>]
List(refs) == [tag |-> "list", v |-> refs]
Enc(match, variables) == [tag |-> "map", match |-> match, variables |-> variables]
Record(kind, name, format, encoding, assembly) ==
    [kind |-> kind, name |-> name, format |-> format, encoding |-> encoding,
     assembly |-> assembly]

\* an inheritance reference is a concatenation of family markers and fillers
RefSegments ==
    {<<"/", "R", "/">>, <<"R", "-">>, <<"/", "I", "/">>, <<"I", "-">>,
     <<"/", "S", "/">>, <<"S", "-">>, <<"/", "B", "/">>, <<"B", "-">>,
     <<"/", "U", "/">>, <<"U", "-">>, <<"/", "J", "/">>, <<"J", "-">>,
     <<"x">>, <<"R">>, <<"/">>}
Refs == {Flatten(parts) : parts \in SeqUpTo(RefSegments, MaxRefParts)}

ref_I == <<"I", "-", "t", "y", "p", "e">>
ref_plain == <<"i", "n", "s", "t">>

Inherits ==
    {Absent, List(<<>>)}
    \cup {Single(r) : r \in Refs}
    \cup {List(<<r>> \o tail) : r \in Refs, tail \in {<<>>, <<ref_I>>}}

\* the subsets of S of at most k elements
RECURSIVE SubsetsUpTo(_, _)
SubsetsUpTo(S, k) ==
    IF k = 0 THEN {{}}
    ELSE LET prev == SubsetsUpTo(S, k - 1)
         IN  prev \cup {q \cup {x} : q \in prev, x \in S}

\* a match pattern of length n with '-' at the positions P
MatchPattern(n, P) ==
    [i \in 1..n |-> IF i \in P THEN "-" ELSE IF i % 2 = 0 THEN "0" ELSE "1"]

MatchPatterns ==
    {MatchPattern(n, P) : n \in 0..1, P \in {{}, {1}}}
    \cup UNION {{MatchPattern(n, P) : P \in SubsetsUpTo(1..n, MaxSeps)} :
                    n \in (CompressedLen - 2)..MaxMatchLen}
    \cup {MatchPattern(2 * CompressedLen, 1..k) : k \in (CompressedLen - 1)..(CompressedLen + 1)}

match16 == MatchPattern(CompressedLen, {})
match17 == MatchPattern(CompressedLen + 1, {})
match32 == MatchPattern(2 * CompressedLen, {8, 9, 10} )

Tokens ==
    {n_rd, n_rs1, n_rs2, n_xd, n_xs1, n_xs2, <<"x", "5">>,
     n_imm, <<"u", "i", "m", "m">>, <<"x", "i", "m", "m">>, <<"I", "m", "m">>,
     <<"1", "2">>, n_vd, <<"v", "s", "1">>, n_vm, <<"v", "0">>, <<>>,
     <<"x", ":", "$", "y">>}

AsmStrings ==
    {Join(ts, sep) : ts \in SeqUpTo(Tokens, MaxTokens), sep \in {<<",">>, <<",", " ">>}}
AsmStringsPlain == {Join(ts, <<",", " ">>) : ts \in SeqUpTo(Tokens, MaxTokens)}

asm_vector == Join(<<n_vd, <<"v", "s", "2">>, <<"v", "s", "1">>, n_vm>>, <<",", " ">>)
asm_add == Join(<<n_rd, n_rs1, n_rs2>>, <<",", " ">>)
FewAssemblies == {Absent, Str(asm_vector), Str(asm_add)}

FewFormats ==
    {FormatAbsent, FormatNull, FormatMap(Absent, NoOpcodes, NoEncoding)}
    \cup {FormatMap(i, NoOpcodes, NoEncoding) :
            i \in {List(<<>>), List(<<ref_plain>>), List(<<ref_I>>), Single(ref_plain)}}

\* opcodes sections: binary literals, other literals, mappings with and without value
bin_opcode == <<"0", "b", "0", "1", "1">>
hex_opcode == <<"0", "x", "3", "3">>
Entry(form, value) == [form |-> form, value |-> value]
Opcodes(opcode, funct3) ==
    [tag |-> "map",
     fields |-> [f \in FieldNames |->
                    IF f = "opcode" THEN opcode
                    ELSE IF f = "funct3" THEN funct3
                    ELSE Entry("absent", Absent)]]
OpcodesSections ==
    {NoOpcodes,
     Opcodes(Entry("dict", Str(bin_opcode)), Entry("str", Str(bin_opcode))),
     Opcodes(Entry("dict", Str(hex_opcode)), Entry("absent", Absent)),
     Opcodes(Entry("dict", Absent), Entry("str", Str(hex_opcode))),
     Opcodes(Entry("dict", Other), Entry("other", Absent)),
     Opcodes(Entry("absent", Absent), Entry("dict", Str(bin_opcode)))}

\* entries of a variables list; a missing name or location reads as ''
Variables ==
    {[name |-> "rd", location |-> "11-7"], [name |-> "imm", location |-> "31-20"],
     [name |-> "rs1", location |-> ""], [name |-> "", location |-> "4-0"]}
OneVariable == [tag |-> "list", v |-> <<[name |-> "rs2", location |-> "24-20"]>>]
VariablesLists == {[tag |-> "list", v |-> vs] : vs \in SeqUpTo(Variables, MaxVars)}

\* the documents of a directory
add_record == Record("instruction", "add", FormatMap(List(<<<<"R", "-", "t", "y", "p", "e">>>>), NoOpcodes, NoEncoding), NoEncoding, Str(asm_add))
NoData == Record("unknown", "", FormatAbsent, NoEncoding, Absent)
Doc(load, data) == [load |-> load, data |-> data]
Documents ==
    {Doc("yamlerror", NoData), Doc("empty", NoData), Doc("notmap", NoData),
     Doc("map", [NoData EXCEPT !.kind = "unknown_kind", !.name = "zzz"]),
     Doc("map", [NoData EXCEPT !.kind = "csr", !.name = "mstatus"]),
     Doc("map", [NoData EXCEPT !.kind = "extension", !.name = "Zicsr"]),
     Doc("map", add_record),
     Doc("map", [add_record EXCEPT !.format = FormatNull]),
     Doc("map", [add_record EXCEPT !.format = FormatMap(List(<<>>), NoOpcodes, NoEncoding)])}

InputPaths ==
    {[kind |-> "noargs", files |-> <<>>], [kind |-> "missing", files |-> <<>>]}
    \cup {[kind |-> "file", files |-> <<d>>] : d \in Documents}
    \cup {[kind |-> "dir", files |-> fs] : fs \in SeqUpTo(Documents, MaxFiles)}

(***************************************************************************)
(* Specifications.                                                         *)
(***************************************************************************)
UnitIdle ==
    /\ udb_data = NoData
    /\ inst_for = ""
    /\ assembly_str = <<>>
    /\ operands = NoOperands
    /\ block = NoBlock

MainIdle ==
    /\ input_path = [kind |-> "none", files |-> <<>>]
    /\ todo = <<>>
    /\ all_content = <<>>
    /\ out_file = Unwritten
    /\ stdout = <<>>
    /\ exit_code = -1

\* the whole run of main
Init ==
    /\ UnitIdle
    /\ input_path \in InputPaths
    /\ pc = "start"
    /\ todo = <<>>
    /\ all_content = <<>>
    /\ out_file = Unwritten
    /\ stdout = <<>>
    /\ exit_code = -1

Next == MainUsage \/ MainFile \/ MainDir \/ MainStep \/ MainFinish \/ MainNotFound

Spec == Init /\ [][Next]_vars

\* get_instruction_format applied to a record
InitClassify ==
    /\ MainIdle
    /\ pc = "call"
    /\ \/ \E i \in Inherits,
             e \in {NoEncoding, Enc(Str(match16), NoVariables),
                    Enc(Str(match17), NoVariables)},
             a \in FewAssemblies :
             udb_data = Record("instruction", "add", FormatMap(i, NoOpcodes, NoEncoding), e, a)
       \/ \E f \in FewFormats,
             e \in {NoEncoding, Enc(Absent, NoVariables)}
                   \cup {Enc(Str(m), NoVariables) : m \in MatchPatterns},
             a \in FewAssemblies :
             udb_data = Record("instruction", "add", f, e, a)
       \/ \E f \in FewFormats,
             e \in {NoEncoding, Enc(Str(match17), NoVariables)},
             a \in {Absent} \cup {Str(x) : x \in AsmStrings} :
             udb_data = Record("instruction", "add", f, e, a)
    /\ inst_for = ""
    /\ assembly_str = <<>>
    /\ operands = NoOperands
    /\ block = NoBlock

Classify ==
    /\ pc = "call"
    /\ inst_for' = get_instruction_format(udb_data)
    /\ pc' = "return"
    /\ UNCHANGED <<udb_data, assembly_str, operands, block,
                   input_path, todo, all_content, out_file, stdout, exit_code>>

SpecClassify == InitClassify /\ [][Classify]_vars

\* parse_assembly_operands applied to an assembly string and a family
InitParse ==
    /\ MainIdle
    /\ pc = "call"
    /\ udb_data = NoData
    /\ inst_for \in Families
    /\ assembly_str \in AsmStrings
    /\ operands = NoOperands
    /\ block = NoBlock

Parse ==
    /\ pc = "call"
    /\ operands' = parse_assembly_operands(assembly_str, inst_for)
    /\ pc' = "return"
    /\ UNCHANGED <<udb_data, inst_for, assembly_str, block,
                   input_path, todo, all_content, out_file, stdout, exit_code>>

SpecParse == InitParse /\ [][Parse]_vars

\* convert_instruction applied to a record
InitConvert ==
    /\ MainIdle
    /\ pc = "call"
    /\ \/ \E f \in {FormatAbsent, FormatNull}
                   \cup {FormatMap(i, NoOpcodes, NoEncoding) :
                           i \in {List(<<>>), Single(ref_plain)}
                                 \cup {List(<<seg>>) : seg \in RefSegments}},
             e \in {NoEncoding, Enc(Str(match16), NoVariables)},
             a \in {Absent} \cup {Str(x) : x \in AsmStringsPlain} :
             udb_data = Record("instruction", "add", f, e, a)
       \/ \E i \in {Absent, List(<<ref_I>>)},
             o \in OpcodesSections,
             fe \in {NoEncoding, Enc(Str(match32), OneVariable)},
             e \in {NoEncoding}
                   \cup {Enc(m, v) : m \in {Absent, Str(match16)},
                                     v \in {NoVariables} \cup VariablesLists},
             a \in {Absent, Str(asm_add)} :
             udb_data = Record("instruction", "add", FormatMap(i, o, fe), e, a)
    /\ inst_for = ""
    /\ assembly_str = <<>>
    /\ operands = NoOperands
    /\ block = NoBlock

Convert ==
    /\ pc = "call"
    /\ block' = convert_instruction(udb_data)
    /\ pc' = "return"
    /\ UNCHANGED <<udb_data, inst_for, assembly_str, operands,
                   input_path, todo, all_content, out_file, stdout, exit_code>>

SpecConvert == InitConvert /\ [][Convert]_vars

(***************************************************************************)
(* Properties of get_instruction_format (SpecClassify).                    *)
(***************************************************************************)
Returned == pc = "return"

\* the reference the classifier reads, when there is one
HasReference(data) ==
    /\ data.format.tag = "map"
    /\ data.format.inherits.tag \in {"str", "list"}
    /\ data.format.inherits.v # <<>>
Reference(data) == data.format.inherits.v[1]

\* the format carries no $inherits key
NoInherits(data) ==
    \/ data.format.tag = "absent"
    \/ data.format.tag = "map" /\ data.format.inherits.tag = "absent"

MarkerOrder == <<"R", "I", "S", "B", "U", "J">>
HasMarker(ref, X) == Contains(ref, <<"/", X, "/">>) \/ Contains(ref, <<X, "-">>)
Marked(ref) == {i \in 1..Len(MarkerOrder) : HasMarker(ref, MarkerOrder[i])}

\* the number of characters of a match pattern that are not '-'
Significant(match) == Cardinality({i \in 1..Len(match) : match[i] # "-"})
HasMatch(data) == data.encoding.tag = "map" /\ data.encoding.match.tag = "str"

\* C1: for every record whose format is absent or a mapping, with $inherits a
\* single reference or a list of any length, get_instruction_format returns one
\* of the eight families and raises nothing.
C1_NeverFails ==
    (Returned /\ udb_data.format.tag \in {"absent", "map"}) => inst_for \in Families

\* C2: when $inherits gives a reference in which some family marker occurs, the
\* result is the earliest family, in the order R, I, S, B, U, J, whose marker
\* ('/X/' or 'X-') occurs in the reference (the single one, or the list's first).
C2_FirstMarkerWins ==
    (Returned /\ HasReference(udb_data) /\ Marked(Reference(udb_data)) # {}) =>
        LET first == CHOOSE i \in Marked(Reference(udb_data)) :
                        \A j \in Marked(Reference(udb_data)) : i <= j
        IN  inst_for = MarkerOrder[first]

\* C2 witness: a list whose first reference carries markers of I and of R, the
\* marker of I standing first in the text, classified R.
C2_Witness ==
    /\ Returned
    /\ udb_data.format.inherits.tag = "list"
    /\ HasReference(udb_data)
    /\ Reference(udb_data) = <<"I", "-", "/", "R", "/">>
    /\ inst_for = "R"

\* C3 as stated: for every record whose format carries a reference, the result
\* is one of R, I, S, B, U, J, and it is R when no marker occurs in it.
C3_InheritsExcludesOtherRules ==
    (Returned /\ HasReference(udb_data)) =>
        /\ inst_for \in {"R", "I", "S", "B", "U", "J"}
        /\ Marked(Reference(udb_data)) = {} => inst_for = "R"

\* C3 amended: when a marker occurs in the reference the result is one of R, I,
\* S, B, U, J whatever the match pattern and the assembly are; when none occurs
\* the match rule, then the assembly rule, then the default R decide.
C3_FallsThroughWithoutMarker ==
    (Returned /\ HasReference(udb_data)) =>
        IF Marked(Reference(udb_data)) # {}
        THEN inst_for \in {"R", "I", "S", "B", "U", "J"}
        ELSE IF HasMatch(udb_data) /\ Significant(udb_data.encoding.match.v) = 16
        THEN inst_for = "C"
        ELSE IF /\ Contains(udb_data.assembly.v, <<"v", "m">>)
                /\ \/ Contains(udb_data.assembly.v, <<"v", "s", "1">>)
                   \/ Contains(udb_data.assembly.v, <<"v", "s", "2">>)
        THEN inst_for = "V"
        ELSE inst_for = "R"

\* C3 witness: a reference without any marker and a match pattern of 16
\* significant characters, classified C.
C3_Witness ==
    /\ Returned
    /\ HasReference(udb_data)
    /\ Marked(Reference(udb_data)) = {}
    /\ HasMatch(udb_data)
    /\ Significant(udb_data.encoding.match.v) = 16
    /\ inst_for = "C"

\* C4: a record without $inherits whose match pattern has exactly 16 characters
\* other than '-' is classified C, wherever the '-' stand; with any other number
\* of such characters it is not classified C.
C4_SixteenSignificant ==
    (Returned /\ NoInherits(udb_data) /\ HasMatch(udb_data)) =>
        (inst_for = "C" <=> Significant(udb_data.encoding.match.v) = 16)

\* C4 witness: a pattern of 18 characters, two of them '-' inside the pattern,
\* classified C.
C4_Witness ==
    /\ Returned
    /\ NoInherits(udb_data)
    /\ HasMatch(udb_data)
    /\ Len(udb_data.encoding.match.v) = 18
    /\ udb_data.encoding.match.v[5] = "-"
    /\ udb_data.encoding.match.v[11] = "-"
    /\ inst_for = "C"

(***************************************************************************)
(* Properties of parse_assembly_operands (SpecParse).                      *)
(***************************************************************************)
\* the tokens of the assembly string
TokensOf(asm) ==
    IF asm = <<>> THEN <<>>
    ELSE [i \in 1..Len(Split(asm, ",")) |-> Strip(Split(asm, ",")[i])]

Count(seq, Test(_)) == Cardinality({i \in 1..Len(seq) : Test(seq[i])})

\* the immediate type the claim names for a family
ClaimedImmType(family) == IF family = "B" THEN t_simm13_lsb0 ELSE t_uimm20
IsClaimedImm(op) == op = ClaimedImmType(inst_for) \o <<":", "$", "i", "m", "m">>

\* C5 as stated: for B and U every token containing 'imm' yields one input of
\* the family's immediate type.
C5_EveryImmToken ==
    (Returned /\ inst_for \in {"B", "U"}) =>
        Count(operands.inp, IsClaimedImm)
            >= Count(TokensOf(assembly_str), LAMBDA t : Contains(t, n_imm))

\* C5 amended: for B and U the inputs of the family's immediate type are, one
\* for one, the tokens that do not begin with 'x' and whose lowercase form
\* contains 'imm' or that are all digits; a token that begins with 'x' is a
\* general-purpose input named by the token, even when it contains 'imm'.
C5_ImmTokenNotRegister ==
    (Returned /\ inst_for \in {"B", "U"}) =>
        /\ Count(operands.inp, IsClaimedImm)
              = Count(TokensOf(assembly_str),
                      LAMBDA t : /\ ~StartsWith(t, <<"x">>)
                                 /\ Contains(Lower(t), n_imm) \/ IsDigit(t))
        /\ \A i \in 1..Len(TokensOf(assembly_str)) :
              LET t == TokensOf(assembly_str)[i]
              IN  (StartsWith(t, <<"x">>) /\ Contains(t, n_imm)) =>
                      \E j \in 1..Len(operands.inp) :
                          operands.inp[j] = <<"G", "P", "R", ":", "$">> \o t

\* C5 witness: family B, the tokens 'uimm' and 'ximm': one simm13_lsb0 input
\* and one general-purpose input.
C5_Witness ==
    /\ Returned
    /\ inst_for = "B"
    /\ TokensOf(assembly_str) = <<<<"u", "i", "m", "m">>, <<"x", "i", "m", "m">>>>
    /\ operands.inp = <<t_simm13_lsb0 \o <<":", "$", "i", "m", "m">>,
                        <<"G", "P", "R", ":", "$", "x", "i", "m", "m">>>>

(***************************************************************************)
(* Properties of main (Spec).                                              *)
(***************************************************************************)
RenderKinds == {"instruction", "csr", "extension"}

\* a document that renders: a mapping of a known kind, an instruction's format
\* being absent or a mapping whose $inherits, if a list, is not empty
Renders(doc) ==
    /\ doc.load = "map"
    /\ doc.data.kind \in RenderKinds
    /\ doc.data.kind = "instruction" =>
          /\ doc.data.format.tag # "null"
          /\ ~(doc.data.format.inherits.tag = "list" /\ doc.data.format.inherits.v = <<>>)

\* a mapping of an unrecognized kind
UnknownKind(doc) == doc.load = "map" /\ doc.data.kind \notin RenderKinds

Files == DOMAIN input_path.files
Rendering == {f \in Files : Renders(input_path.files[f])}
Unrecognized == {f \in Files : UnknownKind(input_path.files[f])}

\* the rendered blocks of a text
Blocks(text) == SelectSeq(text, LAMBDA e : e.tag \in RenderKinds)
Printed(m) == \E i \in 1..Len(stdout) : stdout[i] = m
Ended == pc \in {"done", "crashed"}

\* every unrecognized document: one diagnostic, nothing in the artifact
DiagnosticsOnly ==
    \A f \in Unrecognized :
        /\ Cardinality({i \in 1..Len(stdout) :
                           stdout[i] = Msg("Skipping: unknown kind", f, 0)}) = 1
        /\ \A i \in 1..Len(out_file.text) : out_file.text[i].file # f

\* C6 as stated: a directory of N rendering and M unrecognized documents (not
\* an empty directory) gives one artifact of exactly N blocks, a reported count
\* of N, and one diagnostic and no text for each unrecognized document.
C6_CountsBlocks ==
    (/\ input_path.kind = "dir"
     /\ pc = "done"
     /\ Files # {}
     /\ Files = Rendering \cup Unrecognized) =>
        /\ out_file.writes = 1
        /\ Len(Blocks(out_file.text)) = Cardinality(Rendering)
        /\ Printed(Msg("Generated with items", 0, Cardinality(Rendering)))
        /\ DiagnosticsOnly

\* C6 amended: the same for N >= 1; for N = 0 no artifact is written and
\* 'No content found' is reported in place of a count.
C6_CountsBlocksWhenAny ==
    (input_path.kind = "dir" /\ pc = "done" /\ Files = Rendering \cup Unrecognized) =>
        /\ DiagnosticsOnly
        /\ IF Rendering # {}
           THEN /\ out_file.writes = 1
                /\ Len(Blocks(out_file.text)) = Cardinality(Rendering)
                /\ Printed(Msg("Generated with items", 0, Cardinality(Rendering)))
           ELSE /\ out_file = Unwritten
                /\ Printed(Msg("No content found", 0, 0))

\* C6 witness: an unrecognized document sorted between two rendering ones, two
\* blocks written.
C6_Witness ==
    /\ input_path.kind = "dir"
    /\ pc = "done"
    /\ Rendering = {1, 3}
    /\ Unrecognized = {2}
    /\ Len(Blocks(out_file.text)) = 2

\* C7: no document of a directory aborts the run: the run ends after the last
\* document and the artifact holds the block of every document that renders.
C7_ErrorsIsolated ==
    (input_path.kind = "dir" /\ Ended) =>
        /\ pc = "done"
        /\ todo = <<>>
        /\ Len(Blocks(out_file.text)) = Cardinality(Rendering)

\* C8: when no document renders, the run ends with status 0, writes nothing and
\* reports 'No content generated' (one document) or 'No content found'
\* (a directory).
C8_NothingRenderedNothingWritten ==
    (input_path.kind \in {"file", "dir"} /\ Ended /\ Rendering = {}) =>
        /\ out_file = Unwritten
        /\ exit_code = 0
        /\ input_path.kind = "file" => Printed(Msg("No content generated", 0, 0))
        /\ input_path.kind = "dir" => Printed(Msg("No content found", 0, 0))

(***************************************************************************)
(* Properties of convert_instruction (SpecConvert).                        *)
(***************************************************************************)
GPR_rd == <<"G", "P", "R", ":", "$", "r", "d">>
GPR_rs1 == <<"G", "P", "R", ":", "$", "r", "s", "1">>
GPR_rs2 == <<"G", "P", "R", ":", "$", "r", "s", "2">>
simm12_imm == <<"s", "i", "m", "m", "1", "2", ":", "$", "i", "m", "m">>

Rendered == Returned /\ block.tag = "instruction"
ParsedNothing == block.parsed.output = <<>> /\ block.parsed.inp = <<>>

\* C9: when parsing yields no operand at all the family's default shape is
\* used (R, I, U, J, S, B as listed); otherwise the parsed lists are used as is.
C9_DefaultOperands ==
    Rendered =>
        IF ParsedNothing
        THEN /\ block.format = "R" =>
                    block.output = <<GPR_rd>> /\ block.inp = <<GPR_rs1, GPR_rs2>>
             /\ block.format = "I" =>
                    block.output = <<GPR_rd>> /\ block.inp = <<GPR_rs1, simm12_imm>>
             /\ block.format \in {"U", "J"} =>
                    block.output = <<GPR_rd>> /\ block.inp = <<>>
             /\ block.format \in {"S", "B"} =>
                    block.output = <<>> /\ block.inp = <<GPR_rs1, GPR_rs2, simm12_imm>>
        ELSE block.output = block.parsed.output /\ block.inp = block.parsed.inp

\* C9 witness: an assembly string whose only token is dropped, family J: the
\* default output and no input.
C9_Witness ==
    /\ Rendered
    /\ udb_data.assembly.v = <<"v", "0">>
    /\ ParsedNothing
    /\ block.format = "J"
    /\ block.output = <<GPR_rd>>
    /\ block.inp = <<>>

\* the variables list of the merged encoding: the top-level one if there is
\* one, else the format's
MergedVariables(data) ==
    IF data.encoding.tag = "map" /\ data.encoding.variables.tag = "list"
    THEN data.encoding.variables.v
    ELSE IF /\ data.format.tag = "map"
            /\ data.format.encoding.tag = "map"
            /\ data.format.encoding.variables.tag = "list"
    THEN data.format.encoding.variables.v
    ELSE <<>>

NoMatchPattern(data) ==
    /\ ~(data.encoding.tag = "map" /\ data.encoding.match.tag = "str")
    /\ ~(/\ data.format.tag = "map"
         /\ data.format.encoding.tag = "map"
         /\ data.format.encoding.match.tag = "str")

NoBinaryLiteral(data) ==
    (data.format.tag = "map" /\ data.format.opcodes.tag = "map") =>
        \A f \in FieldNames :
            LET entry == data.format.opcodes.fields[f]
            IN  ~(/\ entry.form \in {"dict", "str"}
                  /\ entry.value.tag = "str"
                  /\ StartsWith(entry.value.v, <<"0", "b">>))

\* the variable comment lines of the block, as name and location
VariableComments ==
    LET lines == SelectSeq(block.constraints, LAMBDA l : l.kind = "Variable")
    IN  [i \in 1..Len(lines) |-> [name |-> lines[i].name, location |-> lines[i].location]]

NoBlockWithoutSources ==
    (/\ NoMatchPattern(udb_data)
     /\ NoBinaryLiteral(udb_data)
     /\ MergedVariables(udb_data) = <<>>) => block.constraints = <<>>

\* C10 as stated: one comment line per variable of the merged variables list,
\* for every variable and in list order; no constraints block without a match
\* pattern, a binary-literal opcode field or variables.
C10_EveryVariable ==
    Rendered =>
        /\ VariableComments = MergedVariables(udb_data)
        /\ NoBlockWithoutSources

\* C10 amended: one comment line, in list order, per variable that has both a
\* non-empty name and a non-empty location; the others get no line.
C10_NamedLocatedVariables ==
    Rendered =>
        /\ VariableComments
              = SelectSeq(MergedVariables(udb_data),
                          LAMBDA var : var.name # "" /\ var.location # "")
        /\ NoBlockWithoutSources

\* C10 witness: the top-level list (rd at 11-7, rs1 without location) replaces
\* the format's list; one comment line, for rd.
C10_Witness ==
    /\ Rendered
    /\ udb_data.format.encoding.variables.tag = "list"
    /\ MergedVariables(udb_data)
          = <<[name |-> "rd", location |-> "11-7"], [name |-> "rs1", location |-> ""]>>
    /\ VariableComments = <<[name |-> "rd", location |-> "11-7"]>>

(***************************************************************************)
(* Properties of the operand order and the assembly format (SpecConvert).  *)
(***************************************************************************)
\* the operands of one role that the tokens yield one by one, in token order
RECURSIVE TokenByToken(_, _, _)
TokenByToken(tokens, family, role) ==
    IF tokens = <<>> THEN <<>>
    ELSE parse_assembly_operands(Head(tokens), family)[role]
         \o TokenByToken(Tail(tokens), family, role)

\* the symbolic name of the descriptor '<type>:$<name>': all that follows the
\* first ':$'
SymbolicName(op) ==
    LET IsSep(i) == op[i] = ":" /\ op[i + 1] = "$"
        k == CHOOSE i \in 1..(Len(op) - 1) : IsSep(i) /\ \A j \in 1..(i - 1) : ~IsSep(j)
    IN  SubSeq(op, k + 2, Len(op))

\* '$<symbolicName>' of every output, then of every input, joined by ', '
OutputsThenInputs ==
    LET all == block.output \o block.inp
    IN  Join([i \in 1..Len(all) |-> <<"$">> \o SymbolicName(all[i])], <<",", " ">>)

OrderKept ==
    /\ block.parsed.output = TokenByToken(TokensOf(udb_data.assembly.v), block.format, "output")
    /\ block.parsed.inp = TokenByToken(TokensOf(udb_data.assembly.v), block.format, "inp")

\* C11: the operands of each role keep the order of their tokens, and the
\* assembly format is '$<symbolicName>' of every output followed by that of
\* every input, for every assembly string and family.
C11_OutputsThenInputs ==
    Rendered => (OrderKept /\ block.asm_format = OutputsThenInputs)

\* C11, the part that holds: the same for the assembly strings none of whose
\* tokens contains ':$'; an output token standing after an input token is
\* rendered before it.
C11_WithoutSeparatorInNames ==
    (Rendered /\ ~Contains(udb_data.assembly.v, <<":", "$">>)) =>
        (OrderKept /\ block.asm_format = OutputsThenInputs)

C11_OutputAfterInput ==
    /\ Rendered
    /\ TokensOf(udb_data.assembly.v) = <<n_rs1, n_rd>>
    /\ block.asm_format = <<"$", "r", "d", ",", " ", "$", "r", "s", "1">>

(***************************************************************************)
(* Properties of the aggregated artifact (Spec).                           *)
(***************************************************************************)
Aggregated == input_path.kind = "dir" /\ pc = "done" /\ out_file.writes > 0

\* the artifact without the line ends written after each entry
Lines == SelectSeq(out_file.text, LAMBDA e : e.tag # "newline")

\* C12: the preamble comes first and once; then, for the rendering files in
\* ascending order of their names, the marker naming the file followed at once
\* by the block rendered from that file; no marker names a skipped file.
C12_ArtifactOrdered ==
    Aggregated =>
        /\ Lines[1].tag = "header"
        /\ \A i \in 2..Len(Lines) : Lines[i].tag # "header"
        /\ Len(Lines) = 1 + 2 * Cardinality(Rendering)
        /\ \A k \in 1..Cardinality(Rendering) :
              /\ Lines[2 * k].tag = "marker"
              /\ Lines[2 * k].file \in Rendering
              /\ Lines[2 * k + 1].tag = input_path.files[Lines[2 * k].file].data.kind
              /\ Lines[2 * k + 1].name = input_path.files[Lines[2 * k].file].data.name
              /\ \A j \in 1..(k - 1) : Lines[2 * j].file < Lines[2 * k].file

\* C12 witness: a register document, a skipped document and an instruction
\* document, in this order of names: preamble, marker 1, register block,
\* marker 3, instruction block.
C12_Witness ==
    /\ Aggregated
    /\ Rendering = {1, 3}
    /\ Files = {1, 2, 3}
    /\ input_path.files[1].data.kind = "csr"
    /\ input_path.files[3].data.kind = "instruction"
    /\ Len(Lines) = 5
    /\ Lines[2] = Marker(1)
    /\ Lines[3].tag = "csr"
    /\ Lines[4] = Marker(3)
    /\ Lines[5].tag = "instruction"

\* C13: in directory mode the artifact is written at most once, and only when
\* every file has been processed; while the loop runs, and after a run that
\* stopped in it, nothing is written; all_content is always an even number of
\* entries, marker and rendered block in turn.
C13_WrittenOnceAtTheEnd ==
    input_path.kind = "dir" =>
        /\ out_file.writes <= 1
        /\ out_file.writes > 0 =>
              /\ pc = "done"
              /\ todo = <<>>
              /\ \A f \in Files : Printed(Msg("Processing", f, 0))
        /\ pc \in {"start", "loop", "crashed"} => out_file = Unwritten
        /\ Len(all_content) % 2 = 0
        /\ \A i \in 1..Len(all_content) :
              IF i % 2 = 1 THEN all_content[i].tag = "marker"
              ELSE all_content[i].tag \in RenderKinds

\* C13 witness: a run stopped by the second document after the first one had
\* rendered: two entries accumulated, no artifact.
C13_Witness ==
    /\ input_path.kind = "dir"
    /\ pc = "crashed"
    /\ Len(all_content) = 2
    /\ todo # <<>>
    /\ out_file = Unwritten

====
